---- MODULE Spec2Model ----
(***************************************************************************)
(* A model of lyda/mysqlstore: a gorilla/sessions backend that keeps       *)
(* session rows in a MySQL table (mysqlstore.go) and a background          *)
(* goroutine that deletes the expired rows on a ticker (cleanup.go).       *)
(*                                                                         *)
(* The database clock `now` counts time in units of 30 days; NOW() in      *)
(* every statement and the timestamp() of the cookie codec both read it,   *)
(* and maxAge is counted in the same unit.  The period of the sweeper's    *)
(* ticker is kept in seconds; when a tick fires is left open.              *)
(*                                                                         *)
(* Next is the whole program once its store is built.  SweepSpec,          *)
(* StoreSpec, PurgeSpec, RaceSpec and OwnerSpec are the parts of it that   *)
(* the properties below are checked on, LiveSpec is SweepSpec under the    *)
(* fairness the Go runtime gives the sweeper, and ConnSpec starts before   *)
(* the store is built.                                                     *)
(***************************************************************************)
EXTENDS Integers, Sequences, FiniteSets, TLC

\* ------------------------------------------------------------------ bounds
MaxRows == 2        \* rows the AUTO_INCREMENT column hands out
MaxTime == 2        \* last value of the database clock

\* the request handlers (browsers) using the store; they share the table only
Clients == {1, 2}
\* the handler of the specifications in which requests come one at a time
Serial == {1}

\* ---------------------------------------------------------- configuration
\* maxAge values NewMySQLStoreFromConnection is called with (in units of 30
\* days): the codec's own maximum age, and one above it.
MaxAges == {1, 2}
\* the interval arguments Cleanup is called with
Intervals == {-1, 0, 1}
\* the session (cookie) name the handlers use
SessionName == "sid"
\* the key pairs handed to securecookie.CodecsFromPairs: a primary key and an
\* older one kept for rotation
Codecs == <<"k1", "k0">>
\* securecookie.New gives every codec of CodecsFromPairs a maximum age of
\* 86400 * 30 seconds, and the store never changes it: one unit of 30 days.
CodecMaxAge == 1

\* session.Values maps, as sets of <<key, value>> pairs
EmptyValues == {}
ValueMaps == {EmptyValues, {<<"user", "a">>}}

\* ------------------------------------------------------------------ errors
Nil == "nil"
ErrNoRows == "sql: no rows in result set"
ErrExpired == "Session expired"
ErrDecode == "securecookie: the value is not valid"
ErrTimestamp == "securecookie: expired timestamp"
ErrDB == "database error"

\* ------------------------------------------------------------ cookie codec
\* A token produced by securecookie: the serialised value, the time it was
\* signed at, and a MAC over name|date|value under the signing key.
Token(name, ts, val, key) == [name |-> name, ts |-> ts, val |-> val, key |-> key]
\* the request carries no cookie of that name
NoCookie == Token("", 0, "", "none")
\* a cookie value that is not a token at all
Malformed == Token("", 0, "", "malformed")
\* a well-formed token for row id s, signed now under a key the store lacks
Forged(s, t) == Token(SessionName, t, s, "attacker")

\* securecookie.EncodeMulti: the first codec signs, at the current time
EncodeMulti(name, val, t) == Token(name, t, val, Codecs[1])

\* securecookie.DecodeMulti: every codec is tried; the MAC (which covers the
\* name) is verified first, then the timestamp against the codec's maximum
\* age, and only then is the value deserialised into the destination.
DecodeMulti(name, tok, t) ==
    IF tok = Malformed THEN [err |-> ErrDecode, val |-> ""]
    ELSE IF ~(\E i \in 1..Len(Codecs) : Codecs[i] = tok.key) \/ tok.name # name
        THEN [err |-> ErrDecode, val |-> ""]
    ELSE IF tok.ts < t - CodecMaxAge
        THEN [err |-> ErrTimestamp, val |-> ""]
    ELSE [err |-> Nil, val |-> tok.val]

\* ---------------------------------------------------- identifier rendering
DigitChars == <<"0", "1", "2", "3", "4", "5", "6", "7", "8", "9">>

RECURSIVE Sprintf_d(_)
\* fmt.Sprintf("%d", n) for n >= 0
Sprintf_d(n) ==
    IF n < 10 THEN DigitChars[n + 1]
    ELSE Sprintf_d(n \div 10) \o DigitChars[(n % 10) + 1]

\* MySQL's conversion of the string parameter of "WHERE id = ?" to the INT
\* column: decimal text gives its number, anything else (the empty ID) gives 0
ParamToInt(s) ==
    IF \E n \in 1..(MaxRows + 1) : Sprintf_d(n) = s
    THEN CHOOSE n \in 1..(MaxRows + 1) : Sprintf_d(n) = s
    ELSE 0

\* ------------------------------------------------------------- statements
\* The table maps id to [session_data, expires_on].
Row(data, exp) == [session_data |-> data, expires_on |-> exp]

\* INSERT ... VALUES (NULL, ?, ADDDATE(NOW(), INTERVAL maxAge SECOND))
InsertExec(tbl, id, data, age, t) ==
    [i \in DOMAIN tbl \cup {id} |-> IF i = id THEN Row(data, t + age) ELSE tbl[i]]

\* DELETE FROM t WHERE id = ?
DeleteExec(tbl, id) == [i \in DOMAIN tbl \ {id} |-> tbl[i]]

\* UpdateExec as it would be without the WHERE clause
UpdateExec_AllRows(tbl, id, data) ==
    [i \in DOMAIN tbl |-> Row(data, tbl[i].expires_on)]

\* UpdateExec as it would be if the statement also moved expires_on
UpdateExec_MovesExpiry(tbl, id, data) ==
    [i \in DOMAIN tbl |-> IF i = id THEN Row(data, tbl[i].expires_on + 1) ELSE tbl[i]]

\* UPDATE t SET session_data = ? WHERE id = ?
UpdateExec(tbl, id, data) ==
    [i \in DOMAIN tbl |-> IF i = id THEN Row(data, tbl[i].expires_on) ELSE tbl[i]]

\* SELECT id, session_data, expires_on < NOW() FROM t WHERE id = ?
SelectQueryRow(tbl, id, t) ==
    IF id \in DOMAIN tbl
    THEN [found |-> TRUE, data |-> tbl[id].session_data,
          expired |-> tbl[id].expires_on < t]
    ELSE [found |-> FALSE, data |-> NoCookie, expired |-> FALSE]

\* CleanupExec as it would be with the comparison turned round
CleanupExec_Gt(tbl, t) ==
    [i \in {j \in DOMAIN tbl : ~(tbl[j].expires_on > t)} |-> tbl[i]]

\* CleanupExec as it would be with <= for <
CleanupExec_Le(tbl, t) ==
    [i \in {j \in DOMAIN tbl : ~(tbl[j].expires_on <= t)} |-> tbl[i]]

\* DELETE FROM t WHERE expires_on < NOW()
CleanupExec(tbl, t) ==
    [i \in {j \in DOMAIN tbl : ~(tbl[j].expires_on < t)} |-> tbl[i]]

\* ------------------------------------------------------------------- state
VARIABLES
    now,        \* the database clock: NOW(), and the codec's timestamp()
    maxAge,     \* the maxAge the store was built with (Options.MaxAge too)
    table,      \* the session table: id -> [session_data, expires_on]
    nextId,     \* the next AUTO_INCREMENT value
    cookie,     \* per client: the last cookie the store wrote to it
    session,    \* per client: the *sessions.Session its handler holds
    err,        \* per client: the error the last store call returned
    created,    \* id -> the values a row was inserted with, while untouched
    taskPc,     \* where the cleanup goroutine is
    stopPc,     \* where the caller of StopCleanup is
    ticker,     \* the time.Ticker of the goroutine: [active, period]
    tickC,      \* ticks waiting in ticker.C (a channel of capacity 1)
    logged,     \* whether log.Printf reported a failed sweep
    store,      \* the *MySQLStore the owner holds: [made, stmts, closed]
    initErr,    \* the error NewMySQLStoreFromConnection returned
    earlyClose  \* whether the store was closed for a sweeper not yet stopped

storeVars == <<maxAge, table, nextId, cookie, session, err, created>>
sweepVars == <<taskPc, stopPc, ticker, tickC, logged>>
ownerVars == <<store, initErr, earlyClose>>
vars == <<now, maxAge, table, nextId, cookie, session, err, created,
          taskPc, stopPc, ticker, tickC, logged, store, initErr, earlyClose>>

\* time.Minute * 5, in seconds
defaultInterval == 300

\* no session held by the handler
NoSession == [live |-> FALSE, ID |-> "", Values |-> EmptyValues, IsNew |-> FALSE]
\* sessions.NewSession(m, name) followed by session.IsNew = true
FreshSession == [live |-> TRUE, ID |-> "", Values |-> EmptyValues, IsNew |-> TRUE]
\* sessions.NewCookie(name, value, options), as far as the store sets it
NewCookie(value, age) == [value |-> value, maxAge |-> age]
\* the time.Ticker before time.NewTicker has run
NoTicker == [active |-> FALSE, period |-> 0]

\* ------------------------------------------------------------ construction
\* the prepared statements of a store, in the order they are prepared in
Statements == <<"insert", "delete", "update", "select", "cleanup">>
\* what db.Exec of CREATE TABLE IF NOT EXISTS can return: nil, the MySQL
\* error 1142 (CREATE command denied), another MySQL error, or an error that
\* is not a *mysql.MySQLError
Err1142 == "Error 1142: CREATE command denied"
Err1044 == "Error 1044: Access denied to database"
ErrBadConn == "driver: bad connection"
CreateResults == {Nil, Err1142, Err1044, ErrBadConn}
\* the error of a db.Prepare that fails
ErrPrepare(q) == "prepare " \o q

Range(f) == {f[k] : k \in DOMAIN f}

\* a nil *MySQLStore
NoStore == [made |-> FALSE, stmts |-> {}, closed |-> FALSE]

\* Connect as it would be if a failed Prepare returned, with its error, a
\* store holding the statements prepared before it
Connect_PartialStore(create, failing) ==
    LET bad == {k \in DOMAIN Statements : Statements[k] \in failing}
        first == CHOOSE k \in bad : \A j \in bad : k <= j
    IN  IF create \notin {Nil, Err1142} THEN [store |-> NoStore, err |-> create]
        ELSE IF bad # {}
            THEN [store |-> [made |-> TRUE,
                             stmts |-> {Statements[k] : k \in 1..(first - 1)},
                             closed |-> FALSE],
                  err |-> ErrPrepare(Statements[first])]
        ELSE [store |-> [made |-> TRUE,
                         stmts |-> Range(Statements),
                         closed |-> FALSE],
              err |-> Nil]

\* NewMySQLStoreFromConnection on a connection whose CREATE TABLE returns
\* create and on which preparing the statements in failing fails:
\* [store, err]
Connect(create, failing) ==
    LET bad == {k \in DOMAIN Statements : Statements[k] \in failing}
        first == CHOOSE k \in bad : \A j \in bad : k <= j
    IN  IF create \notin {Nil, Err1142} THEN [store |-> NoStore, err |-> create]
        ELSE IF bad # {}
            THEN [store |-> NoStore, err |-> ErrPrepare(Statements[first])]
        ELSE [store |-> [made |-> TRUE,
                         stmts |-> Range(Statements),
                         closed |-> FALSE],
              err |-> Nil]

Init ==
    /\ now = 0
    /\ maxAge \in MaxAges
    /\ table = [i \in {} |-> Row(NoCookie, 0)]
    /\ nextId = 1
    /\ cookie = [c \in Clients |-> NewCookie(NoCookie, 0)]
    /\ session = [c \in Clients |-> NoSession]
    /\ err = [c \in Clients |-> Nil]
    /\ created = [i \in {} |-> EmptyValues]
    /\ taskPc = "idle"
    /\ stopPc = "idle"
    /\ ticker = NoTicker
    /\ tickC = 0
    /\ logged = FALSE
    /\ store = Connect(Nil, {}).store
    /\ initErr = Connect(Nil, {}).err
    /\ earlyClose = FALSE

\* -------------------------------------------------------------- the store
\* gob decoding into a map keeps the entries it does not overwrite
MergeValues(old, new) ==
    {p \in old : ~(\E q \in new : q[1] = p[1])} \cup new

\* load as it would be without the test of the expired column
load_NoExpiry(s, tbl, t) ==
    LET row == SelectQueryRow(tbl, ParamToInt(s.ID), t)
        dec == DecodeMulti(SessionName, row.data, t)
    IN  IF ~row.found THEN [err |-> ErrNoRows, session |-> s]
        ELSE IF dec.err # Nil THEN [err |-> dec.err, session |-> s]
        ELSE [err |-> Nil,
              session |-> [s EXCEPT !.Values = MergeValues(s.Values, dec.val)]]

\* MySQLStore.load: the session with its Values filled in, or an error
load(s, tbl, t) ==
    LET row == SelectQueryRow(tbl, ParamToInt(s.ID), t)
        dec == DecodeMulti(SessionName, row.data, t)
    IN  IF ~row.found THEN [err |-> ErrNoRows, session |-> s]
        ELSE IF row.expired THEN [err |-> ErrExpired, session |-> s]
        ELSE IF dec.err # Nil THEN [err |-> dec.err, session |-> s]
        ELSE [err |-> Nil,
              session |-> [s EXCEPT !.Values = MergeValues(s.Values, dec.val)]]

\* NewSession as it would be if the error of load were returned as well
NewSession_ReturnsLoadErr(tok, tbl, t) ==
    LET dec == DecodeMulti(SessionName, tok, t)
        ld == load([FreshSession EXCEPT !.ID = dec.val], tbl, t)
    IN  IF tok = NoCookie THEN [session |-> FreshSession, err |-> Nil]
        ELSE IF dec.err # Nil THEN [session |-> FreshSession, err |-> dec.err]
        ELSE IF ld.err = Nil
            THEN [session |-> [ld.session EXCEPT !.IsNew = FALSE], err |-> Nil]
        ELSE [session |-> ld.session, err |-> ld.err]

\* MySQLStore.New for a request carrying cookie value tok (NoCookie: none)
NewSession(tok, tbl, t) ==
    LET dec == DecodeMulti(SessionName, tok, t)
        ld == load([FreshSession EXCEPT !.ID = dec.val], tbl, t)
    IN  IF tok = NoCookie THEN [session |-> FreshSession, err |-> Nil]
        ELSE IF dec.err # Nil THEN [session |-> FreshSession, err |-> dec.err]
        ELSE IF ld.err = Nil
            THEN [session |-> [ld.session EXCEPT !.IsNew = FALSE], err |-> Nil]
        ELSE [session |-> ld.session, err |-> Nil]

\* the cookie value a client's browser sends: what it was last given, unless
\* that cookie was set to expire
Jar(c) == IF cookie[c].maxAge < 0 THEN NoCookie ELSE cookie[c].value

\* the cookie values a request of client c may carry
Presented(c) == {NoCookie, Jar(c), Malformed, Forged(Sprintf_d(1), now)}

\* what the select statement can find: Scan on a closed statement returns an
\* error, as it does for a row that is not there
Selectable == IF store.closed THEN [i \in {} |-> Row(NoCookie, 0)] ELSE table

\* New as it would be if reading an expired row also deleted it
New_DeletesExpired(c, tok) ==
    /\ session' = [session EXCEPT ![c] = NewSession(tok, Selectable, now).session]
    /\ err' = [err EXCEPT ![c] = NewSession(tok, Selectable, now).err]
    /\ table' = IF /\ DecodeMulti(SessionName, tok, now).err = Nil
                   /\ SelectQueryRow(table, ParamToInt(tok.val), now).expired
                THEN DeleteExec(table, ParamToInt(tok.val))
                ELSE table
    /\ UNCHANGED <<now, maxAge, nextId, cookie, created>>
    /\ UNCHANGED sweepVars
    /\ UNCHANGED ownerVars

\* MySQLStore.New (MySQLStore.Get reaches it through the registry)
New(c, tok) ==
    /\ UNCHANGED <<now, maxAge, table, nextId, cookie, created>>
    /\ UNCHANGED sweepVars
    /\ UNCHANGED ownerVars
    /\ session' = [session EXCEPT ![c] = NewSession(tok, Selectable, now).session]
    /\ err' = [err EXCEPT ![c] = NewSession(tok, Selectable, now).err]

\* MySQLStore.insert: [err, session, table, nextId, created]
insert(s, tbl, nid, age, t, dbOk) ==
    IF dbOk
    THEN [err |-> Nil,
          session |-> [s EXCEPT !.ID = Sprintf_d(nid)],
          table |-> InsertExec(tbl, nid, EncodeMulti(SessionName, s.Values, t), age, t),
          nextId |-> nid + 1,
          inserted |-> {nid}, updated |-> {}]
    ELSE [err |-> ErrDB, session |-> s, table |-> tbl, nextId |-> nid,
          inserted |-> {}, updated |-> {}]

\* save as it would be if an update that matched no row were an error
save_ChecksRows(s, tbl, nid, age, t, dbOk) ==
    IF s.IsNew THEN insert(s, tbl, nid, age, t, dbOk)
    ELSE IF dbOk /\ ParamToInt(s.ID) \in DOMAIN tbl
    THEN [err |-> Nil, session |-> s,
          table |-> UpdateExec(tbl, ParamToInt(s.ID), EncodeMulti(SessionName, s.Values, t)),
          nextId |-> nid,
          inserted |-> {}, updated |-> {ParamToInt(s.ID)}]
    ELSE [err |-> IF dbOk THEN ErrNoRows ELSE ErrDB,
          session |-> s, table |-> tbl, nextId |-> nid,
          inserted |-> {}, updated |-> {}]

\* MySQLStore.save: a session that is new is inserted, any other updated
save(s, tbl, nid, age, t, dbOk) ==
    IF s.IsNew THEN insert(s, tbl, nid, age, t, dbOk)
    ELSE IF dbOk
    THEN [err |-> Nil, session |-> s,
          table |-> UpdateExec(tbl, ParamToInt(s.ID), EncodeMulti(SessionName, s.Values, t)),
          nextId |-> nid,
          inserted |-> {}, updated |-> {ParamToInt(s.ID)}]
    ELSE [err |-> ErrDB, session |-> s, table |-> tbl, nextId |-> nid,
          inserted |-> {}, updated |-> {}]

\* the first half of MySQLStore.Save: insert or save
SaveRow(s, tbl, nid, age, t, dbOk) ==
    IF s.ID = "" THEN insert(s, tbl, nid, age, t, dbOk)
    ELSE save(s, tbl, nid, age, t, dbOk)

\* whether Save of session s executes the insert statement
Inserts(s) == s.ID = "" \/ s.IsNew

\* MySQLStore.Save of the handler's session, whose Values the handler has set
\* to v; dbOk: whether the statement succeeds, which a closed one cannot
Save(c, v, dbOk) ==
    /\ session[c].live
    /\ store.closed => ~dbOk
    /\ Inserts(session[c]) => nextId <= MaxRows
    /\ UNCHANGED <<now, maxAge>>
    /\ UNCHANGED sweepVars
    /\ UNCHANGED ownerVars
    /\ LET r == SaveRow([session[c] EXCEPT !.Values = v], table, nextId, maxAge, now, dbOk)
       IN  /\ session' = [session EXCEPT ![c] = r.session]
           /\ table' = r.table
           /\ nextId' = r.nextId
           /\ err' = [err EXCEPT ![c] = r.err]
           /\ cookie' = IF r.err = Nil
                        THEN [cookie EXCEPT ![c] =
                                 NewCookie(EncodeMulti(SessionName, r.session.ID, now), maxAge)]
                        ELSE cookie
           /\ created' = [i \in ((DOMAIN created \cup r.inserted) \ r.updated) |->
                             IF i \in r.inserted THEN v ELSE created[i]]

\* Delete as it would be if the statement ran first and its failure returned
\* before the cookie is set and the values are cleared
Delete_ExecFirst(c, dbOk) ==
    /\ session[c].live
    /\ store.closed => ~dbOk
    /\ cookie' = IF dbOk THEN [cookie EXCEPT ![c] = NewCookie(NoCookie, -1)] ELSE cookie
    /\ session' = IF dbOk THEN [session EXCEPT ![c].Values = EmptyValues] ELSE session
    /\ table' = IF dbOk THEN DeleteExec(table, ParamToInt(session[c].ID)) ELSE table
    /\ err' = [err EXCEPT ![c] = IF dbOk THEN Nil ELSE ErrDB]
    /\ created' = IF dbOk
                  THEN [i \in DOMAIN created \ {ParamToInt(session[c].ID)} |-> created[i]]
                  ELSE created
    /\ UNCHANGED <<now, maxAge, nextId>>
    /\ UNCHANGED sweepVars
    /\ UNCHANGED ownerVars

\* MySQLStore.Delete
Delete(c, dbOk) ==
    /\ session[c].live
    /\ store.closed => ~dbOk
    /\ cookie' = [cookie EXCEPT ![c] = NewCookie(NoCookie, -1)]
    /\ session' = [session EXCEPT ![c].Values = EmptyValues]
    /\ table' = IF dbOk THEN DeleteExec(table, ParamToInt(session[c].ID)) ELSE table
    /\ err' = [err EXCEPT ![c] = IF dbOk THEN Nil ELSE ErrDB]
    /\ created' = IF dbOk
                  THEN [i \in DOMAIN created \ {ParamToInt(session[c].ID)} |-> created[i]]
                  ELSE created
    /\ UNCHANGED <<now, maxAge, nextId>>
    /\ UNCHANGED sweepVars
    /\ UNCHANGED ownerVars

\* NewMySQLStoreFromConnection is called, once, by the owner
NewMySQLStoreFromConnection(create, failing) ==
    /\ ~store.made
    /\ initErr = Nil
    /\ store' = Connect(create, failing).store
    /\ initErr' = Connect(create, failing).err
    /\ UNCHANGED now
    /\ UNCHANGED storeVars
    /\ UNCHANGED sweepVars
    /\ UNCHANGED earlyClose

\* a sweeper has been started with Cleanup, and no StopCleanup for it has
\* returned
Unstopped == taskPc # "idle" /\ stopPc \in {"idle", "sendQuit", "recvDone"}

\* MySQLStore.Close: the five statements and the connection are closed
Close ==
    /\ store.made
    /\ store' = [store EXCEPT !.closed = TRUE]
    /\ earlyClose' = (earlyClose \/ Unstopped)
    /\ UNCHANGED now
    /\ UNCHANGED storeVars
    /\ UNCHANGED sweepVars
    /\ UNCHANGED initErr

\* the database clock advances
Advance ==
    /\ now < MaxTime
    /\ now' = now + 1
    /\ UNCHANGED storeVars
    /\ UNCHANGED sweepVars
    /\ UNCHANGED ownerVars

\* ------------------------------------------------------------ the sweeper
\* Cleanup as it would be if only a negative interval were replaced
Cleanup_NegativeOnly(interval) ==
    /\ taskPc = "idle"
    /\ ticker' = [active |-> FALSE,
                  period |-> IF interval < 0 THEN defaultInterval ELSE interval]
    /\ taskPc' = "spawned"
    /\ earlyClose' = (earlyClose \/ store.closed)
    /\ UNCHANGED <<stopPc, tickC, logged>>
    /\ UNCHANGED now
    /\ UNCHANGED storeVars
    /\ UNCHANGED <<store, initErr>>

\* MySQLStore.Cleanup: a non-positive interval is replaced by the default,
\* the channels are made and the goroutine is started
Cleanup(interval) ==
    /\ taskPc = "idle"
    /\ ticker' = [active |-> FALSE,
                  period |-> IF interval <= 0 THEN defaultInterval ELSE interval]
    /\ taskPc' = "spawned"
    /\ earlyClose' = (earlyClose \/ store.closed)
    /\ UNCHANGED <<stopPc, tickC, logged>>
    /\ UNCHANGED now
    /\ UNCHANGED storeVars
    /\ UNCHANGED <<store, initErr>>

\* cleanup, line 40: time.NewTicker(interval)
NewTicker ==
    /\ taskPc = "spawned"
    /\ ticker' = [ticker EXCEPT !.active = TRUE]
    /\ taskPc' = "select"
    /\ UNCHANGED <<stopPc, tickC, logged>>
    /\ UNCHANGED now
    /\ UNCHANGED storeVars
    /\ UNCHANGED ownerVars

\* the runtime's timer fires: a tick is put in ticker.C, or dropped when the
\* channel is full
TickerFire ==
    /\ ticker.active
    /\ tickC = 0
    /\ tickC' = 1
    /\ UNCHANGED <<taskPc, stopPc, ticker, logged>>
    /\ UNCHANGED now
    /\ UNCHANGED storeVars
    /\ UNCHANGED ownerVars

\* cleanup, case <-ticker.C: the goroutine takes the tick and calls Exec
TickRecv ==
    /\ taskPc = "select"
    /\ tickC = 1
    /\ tickC' = 0
    /\ taskPc' = "exec"
    /\ UNCHANGED <<stopPc, ticker, logged>>
    /\ UNCHANGED now
    /\ UNCHANGED storeVars
    /\ UNCHANGED ownerVars

\* ExecDone as it would be if a failed sweep ended the goroutine
ExecDone_FatalError(dbOk) ==
    /\ taskPc = "exec"
    /\ store.closed => ~dbOk
    /\ table' = IF dbOk THEN CleanupExec(table, now) ELSE table
    /\ logged' = (logged \/ ~dbOk)
    /\ taskPc' = IF dbOk THEN "select" ELSE "return"
    /\ created' = [i \in DOMAIN created \cap DOMAIN table' |-> created[i]]
    /\ UNCHANGED <<stopPc, ticker, tickC>>
    /\ UNCHANGED <<now, maxAge, nextId, cookie, session, err>>
    /\ UNCHANGED ownerVars

\* ExecDone as it would be if Exec still worked on a closed statement
ExecDone_OnClosed(dbOk) ==
    /\ taskPc = "exec"
    /\ table' = IF dbOk \/ store.closed THEN CleanupExec(table, now) ELSE table
    /\ logged' = (logged \/ ~(dbOk \/ store.closed))
    /\ taskPc' = "select"
    /\ created' = [i \in DOMAIN created \cap DOMAIN table' |-> created[i]]
    /\ UNCHANGED <<stopPc, ticker, tickC>>
    /\ UNCHANGED <<now, maxAge, nextId, cookie, session, err>>
    /\ UNCHANGED ownerVars

\* cleanup, lines 54-57: m.stmtCleanup.Exec() runs and returns; an error is
\* logged and the loop goes on
ExecDone(dbOk) ==
    /\ taskPc = "exec"
    /\ store.closed => ~dbOk
    /\ table' = IF dbOk THEN CleanupExec(table, now) ELSE table
    /\ logged' = (logged \/ ~dbOk)
    /\ taskPc' = "select"
    /\ created' = [i \in DOMAIN created \cap DOMAIN table' |-> created[i]]
    /\ UNCHANGED <<stopPc, ticker, tickC>>
    /\ UNCHANGED <<now, maxAge, nextId, cookie, session, err>>
    /\ UNCHANGED ownerVars

\* MySQLStore.StopCleanup is called with the handle Cleanup returned, and
\* blocks sending on quit
StopCleanup ==
    /\ taskPc # "idle"
    /\ stopPc = "idle"
    /\ stopPc' = "sendQuit"
    /\ UNCHANGED <<taskPc, ticker, tickC, logged>>
    /\ UNCHANGED now
    /\ UNCHANGED storeVars
    /\ UNCHANGED ownerVars

\* StopCleanup is called a second time with the same handle, after the first
\* call has returned, and blocks sending on quit
StopCleanupAgain ==
    /\ stopPc = "returned"
    /\ stopPc' = "sendQuitAgain"
    /\ UNCHANGED <<taskPc, ticker, tickC, logged>>
    /\ UNCHANGED now
    /\ UNCHANGED storeVars
    /\ UNCHANGED ownerVars

\* where a caller of StopCleanup is: blocked at quit <- struct{}{} (line 34),
\* blocked at <-done (line 35), and where the rendezvous takes it
SendingQuit == {"sendQuit", "sendQuitAgain"}
AwaitingDone == {"recvDone", "recvDoneAgain"}
AwaitDone(pc) == IF pc = "sendQuit" THEN "recvDone" ELSE "recvDoneAgain"
Returned(pc) == IF pc = "recvDone" THEN "returned" ELSE "returnedAgain"

\* RecvQuit as it would be if the ticker were stopped before done is sent
RecvQuit_StopsTicker ==
    /\ taskPc = "select"
    /\ stopPc \in SendingQuit
    /\ taskPc' = "sendDone"
    /\ stopPc' = AwaitDone(stopPc)
    /\ ticker' = [ticker EXCEPT !.active = FALSE]
    /\ UNCHANGED <<tickC, logged>>
    /\ UNCHANGED now
    /\ UNCHANGED storeVars
    /\ UNCHANGED ownerVars

\* RecvQuit as it would be if quit were looked at only when no tick is ready
RecvQuit_TickFirst ==
    /\ taskPc = "select"
    /\ stopPc \in SendingQuit
    /\ tickC = 0
    /\ taskPc' = "sendDone"
    /\ stopPc' = AwaitDone(stopPc)
    /\ UNCHANGED <<ticker, tickC, logged>>
    /\ UNCHANGED now
    /\ UNCHANGED storeVars
    /\ UNCHANGED ownerVars

\* RecvQuit as it would be if quit were also taken while Exec is running
RecvQuit_Interrupts ==
    /\ taskPc \in {"select", "exec"}
    /\ stopPc \in SendingQuit
    /\ taskPc' = "sendDone"
    /\ stopPc' = AwaitDone(stopPc)
    /\ UNCHANGED <<ticker, tickC, logged>>
    /\ UNCHANGED now
    /\ UNCHANGED storeVars
    /\ UNCHANGED ownerVars

\* cleanup, case <-quit: the unbuffered send and the receive meet
RecvQuit ==
    /\ taskPc = "select"
    /\ stopPc \in SendingQuit
    /\ taskPc' = "sendDone"
    /\ stopPc' = AwaitDone(stopPc)
    /\ UNCHANGED <<ticker, tickC, logged>>
    /\ UNCHANGED now
    /\ UNCHANGED storeVars
    /\ UNCHANGED ownerVars

\* SendDone as it would be without the return of line 51: the loop goes on
SendDone_NoReturn ==
    /\ taskPc = "sendDone"
    /\ stopPc \in AwaitingDone
    /\ taskPc' = "select"
    /\ stopPc' = Returned(stopPc)
    /\ UNCHANGED <<ticker, tickC, logged>>
    /\ UNCHANGED now
    /\ UNCHANGED storeVars
    /\ UNCHANGED ownerVars

\* cleanup, line 50, meets StopCleanup, line 35: done is handed over, and
\* StopCleanup returns
SendDone ==
    /\ taskPc = "sendDone"
    /\ stopPc \in AwaitingDone
    /\ taskPc' = "return"
    /\ stopPc' = Returned(stopPc)
    /\ UNCHANGED <<ticker, tickC, logged>>
    /\ UNCHANGED now
    /\ UNCHANGED storeVars
    /\ UNCHANGED ownerVars

\* cleanup, line 51 and the deferred function of lines 42-44: ticker.Stop()
\* runs as the goroutine returns
TickerStop ==
    /\ taskPc = "return"
    /\ ticker' = [ticker EXCEPT !.active = FALSE]
    /\ taskPc' = "stopped"
    /\ UNCHANGED <<stopPc, tickC, logged>>
    /\ UNCHANGED now
    /\ UNCHANGED storeVars
    /\ UNCHANGED ownerVars

\* ------------------------------------------------------- the specification
Next ==
    \/ Close
    \/ \E c \in Clients : \E tok \in Presented(c) : New(c, tok)
    \/ \E c \in Clients : \E v \in ValueMaps : \E dbOk \in BOOLEAN : Save(c, v, dbOk)
    \/ \E c \in Clients : \E dbOk \in BOOLEAN : Delete(c, dbOk)
    \/ Advance
    \/ \E i \in Intervals : Cleanup(i)
    \/ NewTicker
    \/ TickerFire
    \/ TickRecv
    \/ \E dbOk \in BOOLEAN : ExecDone(dbOk)
    \/ StopCleanup
    \/ StopCleanupAgain
    \/ RecvQuit
    \/ SendDone
    \/ TickerStop

Spec == Init /\ [][Next]_vars

\* The sweeper with the rows it works on: handlers that create sessions, the
\* clock, and the whole of cleanup.go.
SweepNext ==
    \/ \E c \in Serial : New(c, NoCookie)
    \/ \E c \in Serial : \E v \in ValueMaps : Save(c, v, TRUE)
    \/ Advance
    \/ \E i \in Intervals : Cleanup(i)
    \/ NewTicker
    \/ TickerFire
    \/ TickRecv
    \/ \E dbOk \in BOOLEAN : ExecDone(dbOk)
    \/ StopCleanup
    \/ RecvQuit
    \/ SendDone
    \/ TickerStop

SweepSpec == Init /\ [][SweepNext]_vars

\* What the Go runtime and the claims' premises give the sweeper: a runnable
\* goroutine runs, the timer fires, Exec returns, and select, which picks at
\* random among the ready cases, cannot pass over a ready quit for ever.
SweepFairness ==
    /\ WF_vars(NewTicker)
    /\ WF_vars(TickerFire)
    /\ WF_vars(TickRecv)
    /\ WF_vars(\E dbOk \in BOOLEAN : ExecDone(dbOk))
    /\ SF_vars(RecvQuit)
    /\ WF_vars(SendDone)
    /\ WF_vars(TickerStop)

LiveSpec == Init /\ [][SweepNext]_vars /\ SweepFairness

\* The store by itself: the handlers' calls, with statements that may fail,
\* and the clock.
StoreNext ==
    \/ \E c \in Serial : \E tok \in Presented(c) : New(c, tok)
    \/ \E c \in Serial : \E v \in ValueMaps : \E dbOk \in BOOLEAN : Save(c, v, dbOk)
    \/ \E c \in Serial : \E dbOk \in BOOLEAN : Delete(c, dbOk)
    \/ Advance

StoreSpec == Init /\ [][StoreNext]_vars

\* The store beside a running sweeper: the handlers' calls and the sweeps,
\* with statements that succeed.
PurgeNext ==
    \/ \E c \in Serial : \E tok \in Presented(c) : New(c, tok)
    \/ \E c \in Serial : \E v \in ValueMaps : Save(c, v, TRUE)
    \/ \E c \in Serial : Delete(c, TRUE)
    \/ Advance
    \/ Cleanup(0)
    \/ NewTicker
    \/ TickerFire
    \/ TickRecv
    \/ ExecDone(TRUE)

PurgeSpec == Init /\ [][PurgeNext]_vars

\* Two handlers at once beside a running sweeper.  Every call of New, Save
\* and Delete executes one statement, and what it does before and after it
\* touches only the session and the response of its own request, so a call
\* is one step, taken where its statement runs; statements succeed.  The
\* store has the maxAge with which rows expire within MaxTime, and its
\* sweeper has been started and is at its select.  Both handlers create,
\* load and update; the first one also deletes.
RaceInit ==
    /\ now = 0
    /\ maxAge = CodecMaxAge
    /\ table = [i \in {} |-> Row(NoCookie, 0)]
    /\ nextId = 1
    /\ cookie = [c \in Clients |-> NewCookie(NoCookie, 0)]
    /\ session = [c \in Clients |-> NoSession]
    /\ err = [c \in Clients |-> Nil]
    /\ created = [i \in {} |-> EmptyValues]
    /\ taskPc = "select"
    /\ stopPc = "idle"
    /\ ticker = [active |-> TRUE, period |-> defaultInterval]
    /\ tickC = 0
    /\ logged = FALSE
    /\ store = Connect(Nil, {}).store
    /\ initErr = Connect(Nil, {}).err
    /\ earlyClose = FALSE

\* the values handler c puts in its session: not those of the other handler
ValuesOf(c) == IF c = 1 THEN {<<"user", "a">>} ELSE EmptyValues

RaceNext ==
    \/ \E c \in Clients : New(c, Jar(c))
    \/ \E c \in Clients : Save(c, ValuesOf(c), TRUE)
    \/ \E c \in Serial : Delete(c, TRUE)
    \/ Advance
    \/ TickerFire
    \/ TickRecv
    \/ ExecDone(TRUE)

RaceSpec == RaceInit /\ [][RaceNext]_vars

\* The owner's use of the sweeper and of Close, in any order: sessions are
\* created, the clock runs, a sweeper is started and stopped, StopCleanup is
\* called again, and the store is closed; a statement fails only when closed.
OwnerNext ==
    \/ \E c \in Serial : New(c, NoCookie)
    \/ \E c \in Serial : \E v \in ValueMaps : Save(c, v, ~store.closed)
    \/ Advance
    \/ Close
    \/ Cleanup(0)
    \/ NewTicker
    \/ TickerFire
    \/ TickRecv
    \/ ExecDone(~store.closed)
    \/ StopCleanup
    \/ StopCleanupAgain
    \/ RecvQuit
    \/ SendDone
    \/ TickerStop

OwnerSpec == Init /\ [][OwnerNext]_vars

\* The owner's view, from before the store is built: the constructor on any
\* connection, then handlers that create sessions, the clock, and Close.
ConnInit ==
    /\ now = 0
    /\ maxAge \in MaxAges
    /\ table = [i \in {} |-> Row(NoCookie, 0)]
    /\ nextId = 1
    /\ cookie = [c \in Clients |-> NewCookie(NoCookie, 0)]
    /\ session = [c \in Clients |-> NoSession]
    /\ err = [c \in Clients |-> Nil]
    /\ created = [i \in {} |-> EmptyValues]
    /\ taskPc = "idle"
    /\ stopPc = "idle"
    /\ ticker = NoTicker
    /\ tickC = 0
    /\ logged = FALSE
    /\ store = NoStore
    /\ initErr = Nil
    /\ earlyClose = FALSE

ConnNext ==
    \/ \E create \in CreateResults : \E failing \in SUBSET Range(Statements) :
           NewMySQLStoreFromConnection(create, failing)
    \/ store.made /\ \E c \in Serial : New(c, NoCookie)
    \/ store.made /\ \E c \in Serial : \E v \in ValueMaps : \E dbOk \in BOOLEAN :
                         Save(c, v, dbOk)
    \/ Advance
    \/ Close

ConnSpec == ConnInit /\ [][ConnNext]_vars

\* --------------------------------------------------------------- the claims

\* C1: once StopCleanup has returned, the goroutine of that handle never
\* takes another tick and never executes the delete-expired statement again,
\* however many ticks the ticker still delivers.
C1_NoSweepAfterStop ==
    [][stopPc = "returned" =>
          /\ taskPc' # "exec"
          /\ ~TickRecv
          /\ ~(\E dbOk \in BOOLEAN : ExecDone(dbOk))]_vars

\* C1 witness: StopCleanup has returned, a tick is waiting in ticker.C and
\* an expired row is in the table, yet the goroutine has ended.
C1_Witness ==
    /\ stopPc = "returned"
    /\ taskPc = "stopped"
    /\ tickC = 1
    /\ \E i \in DOMAIN table : table[i].expires_on < now

\* C2 as claimed: the ticker is stopped before done is sent, so whenever
\* StopCleanup has returned the goroutine has ended and its ticker is stopped.
C2_TickerStoppedBeforeDone ==
    /\ taskPc = "sendDone" => ~ticker.active
    /\ stopPc = "returned" => (taskPc = "stopped" /\ ~ticker.active)

\* C2 as amended: done is sent first and the ticker is stopped after it, by
\* the deferred call, as the goroutine returns; whenever StopCleanup has
\* returned the goroutine has left its loop, and all it can still do is stop
\* the ticker.
C2_DoneBeforeTickerStop ==
    /\ taskPc \in {"sendDone", "return"} => ticker.active
    /\ stopPc = "returned" => taskPc \in {"return", "stopped"}
    /\ taskPc = "stopped" => (~ticker.active /\ stopPc = "returned")

\* C2 witness: StopCleanup has returned while the ticker is still running.
C2_Witness ==
    /\ stopPc = "returned"
    /\ taskPc = "return"
    /\ ticker.active

\* C3: a StopCleanup that is blocked sending quit eventually returns, with
\* the goroutine ended, even while ticks keep arriving; and a goroutine that
\* has received quit never goes back to its loop.
C3_StopTerminates ==
    /\ (stopPc = "sendQuit") ~> (stopPc = "returned" /\ taskPc = "stopped")
    /\ [][(taskPc \in {"sendDone", "return", "stopped"}) =>
             (taskPc' \in {"sendDone", "return", "stopped"})]_vars

\* C3 witness: the handshake has completed and the ticker is stopped, with a
\* tick that was ready left in ticker.C.
C3_Witness ==
    /\ stopPc = "returned"
    /\ taskPc = "stopped"
    /\ ~ticker.active
    /\ tickC = 1

\* C4: a failed sweep is logged and nothing else: the goroutine is back at
\* its select, no caller sees the error, and from there it still takes the
\* next tick and still answers quit.
C4_SweepErrorNotFatal ==
    /\ [][ExecDone(FALSE) =>
             /\ taskPc' = "select"
             /\ logged'
             /\ err' = err
             /\ stopPc' = stopPc]_vars
    /\ [](logged /\ stopPc \in {"idle", "sendQuit"} => taskPc \in {"select", "exec"})
    /\ [](logged /\ taskPc = "select" /\ tickC = 1 => ENABLED TickRecv)
    /\ [](logged /\ taskPc = "select" /\ stopPc = "sendQuit" => ENABLED RecvQuit)

\* C4 witness: after a failed sweep the goroutine is sweeping again.
C4_Witness ==
    /\ logged
    /\ taskPc = "exec"

\* a sweeper that was started and that nobody has asked to stop
Sweeping == stopPc = "idle" /\ taskPc \in {"spawned", "select", "exec"}

\* C6: while a sweeper runs and its sweeps succeed, every expired row is
\* eventually removed; the sweep of a tick removes every row that had expired
\* when the statement ran, so also every row expired when the tick fired.
C6_ExpiredRowsSwept ==
    /\ \A i \in 1..MaxRows :
          (Sweeping /\ i \in DOMAIN table /\ table[i].expires_on < now)
              ~> (i \notin DOMAIN table \/ ~Sweeping \/ logged)
    /\ [][ExecDone(TRUE) =>
             \A i \in DOMAIN table :
                 table[i].expires_on < now => i \notin DOMAIN table']_vars

\* C6 witness: rows were created and the running sweeper, none of whose
\* sweeps failed, has removed them all.
C6_Witness ==
    /\ Sweeping
    /\ ~logged
    /\ nextId > 1
    /\ DOMAIN table = {}

\* C7: a successful sweep leaves exactly the rows with expires_on >= NOW(),
\* each as it was.
C7_PurgeAllAndOnlyExpired ==
    [][ExecDone(TRUE) =>
          /\ DOMAIN table' = {i \in DOMAIN table : table[i].expires_on >= now}
          /\ \A i \in DOMAIN table' : table'[i] = table[i]]_vars

\* C7 witness: a sweep has removed row 1 and kept row 2, which expires
\* exactly now.
C7_Witness ==
    /\ taskPc = "select"
    /\ DOMAIN table = {2}
    /\ table[2].expires_on = now

\* the session a handler has before load is called for row i
SessionFor(i) == [FreshSession EXCEPT !.ID = Sprintf_d(i)]

\* C5: for a row whose expires_on is before NOW(), load returns an error and
\* fills in no values, and New, given a valid cookie for that row, leaves
\* the session new and empty.
C5_ExpiredNeverLoads ==
    \A i \in DOMAIN table :
        table[i].expires_on < now =>
            LET ld == load(SessionFor(i), table, now)
                nw == NewSession(EncodeMulti(SessionName, Sprintf_d(i), now), table, now)
            IN  /\ ld.err # Nil
                /\ ld.session.Values = EmptyValues
                /\ nw.session.IsNew
                /\ nw.session.Values = EmptyValues

\* C5 witness: New has run for a cookie whose row holds values and has
\* expired, and the handler's session is new and empty.
C5_Witness ==
    \E c \in Clients :
        /\ session[c].live /\ session[c].IsNew
        /\ session[c].Values = EmptyValues
        /\ err[c] = Nil
        /\ ParamToInt(session[c].ID) \in DOMAIN table
        /\ table[ParamToInt(session[c].ID)].expires_on < now
        /\ table[ParamToInt(session[c].ID)].session_data.val # EmptyValues

\* a step in which the sweep removes row i, which has expired
PurgeRemoves(i) ==
    /\ taskPc = "exec" /\ taskPc' = "select"
    /\ table[i].expires_on < now

\* a step in which a handler's Delete removes row i, its session's row
DeleteRemoves(i) ==
    \E c \in Clients :
        /\ session[c].live
        /\ ParamToInt(session[c].ID) = i
        /\ cookie'[c] = NewCookie(NoCookie, -1)

\* C8: load of an expired row fails with the expired error; no step that
\* changes the table is a New, however often New runs; and a row leaves the
\* table only in a sweep, being expired, or in a Delete of its session.
C8_LoadLeavesExpiredRow ==
    /\ [](\A i \in DOMAIN table :
              table[i].expires_on < now =>
                  load(SessionFor(i), table, now).err = ErrExpired)
    /\ [][table' # table =>
              \A c \in Clients : \A tok \in Presented(c) : ~New(c, tok)]_vars
    /\ [][\A i \in DOMAIN table :
              i \notin DOMAIN table' => (PurgeRemoves(i) \/ DeleteRemoves(i))]_vars

\* C8 witness: beside a running sweeper New has met an expired row, and the
\* row is still in the table.
C8_Witness ==
    /\ taskPc \in {"select", "exec"}
    /\ \E c \in Clients :
        /\ session[c].live /\ session[c].IsNew
        /\ session[c].Values = EmptyValues
        /\ ParamToInt(session[c].ID) \in DOMAIN table
        /\ table[ParamToInt(session[c].ID)].expires_on < now
        /\ table[ParamToInt(session[c].ID)].session_data.val # EmptyValues

\* the request's cookie does not decode: tampered, expired or malformed
CookieRejected(tok, t) ==
    tok # NoCookie /\ DecodeMulti(SessionName, tok, t).err # Nil

\* the request's cookie decodes, and its row is missing or expired
RowUnusable(tok, tbl, t) ==
    /\ tok # NoCookie
    /\ DecodeMulti(SessionName, tok, t).err = Nil
    /\ LET row == SelectQueryRow(tbl, ParamToInt(tok.val), t)
       IN  ~row.found \/ row.expired

\* C9 as claimed: whether the cookie does not decode or its row is missing
\* or expired, New returns a nil error and a new session without values.
C9_NewNeverFails ==
    [][\A c \in Clients : \A tok \in Presented(c) :
          (New(c, tok) /\ (CookieRejected(tok, now) \/ RowUnusable(tok, table, now))) =>
              /\ err'[c] = Nil
              /\ session'[c].IsNew
              /\ session'[c].Values = EmptyValues]_vars

\* C9 as amended: a missing or expired row gives a nil error and a new
\* session without values that carries the cookie's identifier; a cookie
\* that does not decode gives that decode error, with a fresh session.
C9_NewSoftensLoadErrorsOnly ==
    [][\A c \in Clients : \A tok \in Presented(c) :
          New(c, tok) =>
              /\ RowUnusable(tok, table, now) =>
                    /\ err'[c] = Nil
                    /\ session'[c].IsNew
                    /\ session'[c].Values = EmptyValues
                    /\ session'[c].ID = tok.val
              /\ CookieRejected(tok, now) =>
                    /\ err'[c] = DecodeMulti(SessionName, tok, now).err
                    /\ err'[c] # Nil
                    /\ session'[c] = FreshSession]_vars

\* C9 witness: New has returned the error of a cookie whose timestamp is too
\* old, with a fresh session.
C9_Witness ==
    \E c \in Clients :
        /\ err[c] = ErrTimestamp
        /\ session[c] = FreshSession

\* C10 as claimed: while a created row is in the table, not updated and not
\* expired, New with a cookie for its identifier gives a session that is not
\* new and has the values the row was created with.
C10_RoundTrip ==
    \A i \in DOMAIN created :
        (i \in DOMAIN table /\ ~(table[i].expires_on < now)) =>
            LET nw == NewSession(EncodeMulti(SessionName, Sprintf_d(i), now), table, now)
            IN  /\ nw.err = Nil
                /\ ~nw.session.IsNew
                /\ nw.session.ID = Sprintf_d(i)
                /\ nw.session.Values = created[i]

\* C12: Cleanup with an interval that is zero or negative does exactly what
\* Cleanup with the default interval of five minutes does, and Cleanup with a
\* positive interval gives the ticker that interval; the period the ticker
\* is made with is positive and stays what Cleanup computed.
C12_DefaultInterval ==
    /\ [][\A i \in Intervals :
              Cleanup(i) =>
                  /\ i <= 0 => (Cleanup(defaultInterval) /\ ticker'.period = 300)
                  /\ i > 0 => ticker'.period = i]_vars
    /\ [](ticker.active => ticker.period > 0)
    /\ [][taskPc # "idle" => ticker'.period = ticker.period]_vars

\* C12 witness: a sweeper started with a non-positive interval is running
\* on a ticker of five minutes.
C12_Witness ==
    /\ taskPc = "select"
    /\ ticker.active
    /\ ticker.period = 300
    /\ ticker.period \notin Intervals

\* C13: no step changes the expires_on of a row, which is NOW() + maxAge of
\* the insert that made it; a successful Save of a session that is not new
\* keeps the session's identifier and the set of rows, touches no other row,
\* and leaves in session_data the encoding of just the values saved.
C13_UpdateKeepsExpiry ==
    /\ [][\A i \in DOMAIN table \cap DOMAIN table' :
              table'[i].expires_on = table[i].expires_on]_vars
    /\ [][\A i \in DOMAIN table' \ DOMAIN table :
              table'[i].expires_on = now + maxAge]_vars
    /\ [][\A c \in Clients : \A v \in ValueMaps :
              (Save(c, v, TRUE) /\ ~session[c].IsNew /\ session[c].ID # "") =>
                  LET id == ParamToInt(session[c].ID)
                  IN  /\ session'[c].ID = session[c].ID
                      /\ DOMAIN table' = DOMAIN table
                      /\ \A i \in DOMAIN table \ {id} : table'[i] = table[i]
                      /\ id \in DOMAIN table =>
                            /\ table'[id].session_data = EncodeMulti(SessionName, v, now)
                            /\ DecodeMulti(SessionName, table'[id].session_data, now).val = v]_vars

\* C13 witness: a row that was created with values has been saved again, at
\* a later time, with none, and holds none.
C13_Witness ==
    \E i \in DOMAIN table :
        /\ table[i].session_data.ts > table[i].expires_on - maxAge
        /\ table[i].session_data.val = EmptyValues
        /\ \E c \in Clients : session[c].ID = Sprintf_d(i) /\ ~session[c].IsNew

\* C14: NewMySQLStoreFromConnection returns a store with all five statements
\* and a nil error exactly when CREATE TABLE returned nil or error 1142 and
\* every Prepare succeeded; otherwise it returns a nil store with the error
\* of CREATE TABLE, or of the first Prepare that failed.
C14_StoreOrError ==
    /\ [][\A create \in CreateResults : \A failing \in SUBSET Range(Statements) :
              NewMySQLStoreFromConnection(create, failing) =>
                  /\ store'.made <=> (create \in {Nil, Err1142} /\ failing = {})
                  /\ store'.made <=> initErr' = Nil
                  /\ store'.made =>
                        /\ Cardinality(store'.stmts) = 5
                        /\ ~store'.closed
                  /\ ~store'.made => store'.stmts = {}
                  /\ create \notin {Nil, Err1142} => initErr' = create
                  /\ (create \in {Nil, Err1142} /\ failing # {}) =>
                        \E k \in DOMAIN Statements :
                            /\ Statements[k] \in failing
                            /\ \A j \in 1..(k - 1) : Statements[j] \notin failing
                            /\ initErr' = ErrPrepare(Statements[k])]_vars
    /\ [](store.made => (initErr = Nil /\ Cardinality(store.stmts) = 5))

\* C14 witness: the fifth Prepare failed after four had succeeded, and the
\* owner has the error and no store.
C14_Witness ==
    /\ ~store.made
    /\ store.stmts = {}
    /\ initErr = ErrPrepare("cleanup")

\* C15: a second StopCleanup, called after the first has returned, stays
\* blocked at its send on quit: the goroutine has left its loop, so nothing
\* receives from quit, the caller never gets past the send, and no done is
\* sent again.
C15_SecondStopBlocks ==
    /\ [](stopPc = "sendQuitAgain" =>
              /\ taskPc \in {"return", "stopped"}
              /\ ~ENABLED RecvQuit)
    /\ [][stopPc = "sendQuitAgain" =>
              (stopPc' = "sendQuitAgain" /\ ~RecvQuit /\ ~SendDone)]_vars
    /\ [](stopPc \notin {"recvDoneAgain", "returnedAgain"})

\* C15 witness: the second StopCleanup is blocked, the goroutine has ended,
\* and a tick is left in ticker.C.
C15_Witness ==
    /\ stopPc = "sendQuitAgain"
    /\ taskPc = "stopped"
    /\ ~ticker.active
    /\ tickC = 1

\* the sweeper's statement is being executed on a closed store
ExecOnClosed == taskPc = "exec" /\ store.closed

\* C16: unless Close was called for a sweeper that was started and whose
\* StopCleanup had not returned, the delete-expired statement is never
\* executed on a closed store; after such a Close the goroutine still takes
\* every tick, and each Exec fails on the closed statement: it is logged
\* and deletes nothing.
C16_NoSweepAfterOrderlyClose ==
    /\ [](ExecOnClosed => earlyClose)
    /\ [][(Close /\ ~Unstopped) => (earlyClose' = earlyClose)]_vars
    /\ [](store.closed /\ taskPc = "select" /\ tickC = 1 => ENABLED TickRecv)
    /\ [][(ExecOnClosed /\ taskPc' # "exec") =>
              (logged' /\ table' = table /\ taskPc' = "select")]_vars

\* C16 witness: the store was closed under a running sweeper, which has then
\* executed on the closed statement and left an expired row in the table.
C16_Witness ==
    /\ store.closed
    /\ earlyClose
    /\ logged
    /\ taskPc = "select"
    /\ \E i \in DOMAIN table : table[i].expires_on < now

\* C17 as claimed: only a Save of a session without an identifier adds a row
\* to the table; a Save of a session that carries an identifier leaves the
\* set of rows and the session's identifier as they were.
C17_RowOnlyOnFirstSave ==
    [][\A c \in Clients : \A v \in ValueMaps : \A dbOk \in BOOLEAN :
          Save(c, v, dbOk) =>
              /\ DOMAIN table' # DOMAIN table => session[c].ID = ""
              /\ session[c].ID # "" =>
                    /\ session'[c].ID = session[c].ID
                    /\ DOMAIN table' = DOMAIN table]_vars

\* C18: while the goroutine is inside Exec, quit cannot be received and a
\* StopCleanup that is waiting stays blocked at its send; the goroutine
\* leaves Exec only by the statement returning, and a statement that
\* succeeds has removed the expired rows; the waiting StopCleanup returns
\* after that; and once quit has been received no Exec starts again.
C18_SweepNotInterrupted ==
    /\ [](taskPc = "exec" => ~ENABLED RecvQuit)
    /\ [][(taskPc = "exec" /\ stopPc = "sendQuit") => (stopPc' = "sendQuit")]_vars
    /\ [][(taskPc = "exec" /\ taskPc' # "exec") =>
              /\ taskPc' = "select"
              /\ \E dbOk \in BOOLEAN : ExecDone(dbOk)
              /\ (ExecDone(TRUE) =>
                    DOMAIN table' = {i \in DOMAIN table : ~(table[i].expires_on < now)})]_vars
    /\ (taskPc = "exec" /\ stopPc = "sendQuit") ~> (taskPc = "select" /\ stopPc = "sendQuit")
    /\ (taskPc = "exec" /\ stopPc = "sendQuit") ~> (stopPc = "returned")
    /\ [][(taskPc \in {"sendDone", "return", "stopped"}) => (taskPc' # "exec")]_vars

\* C18 witness: StopCleanup has been called and waits at its send while the
\* goroutine is inside Exec with an expired row to remove.
C18_Witness ==
    /\ taskPc = "exec"
    /\ stopPc = "sendQuit"
    /\ \E i \in DOMAIN table : table[i].expires_on < now

\* the handler's session is not new and names a row that is not in the table
RowGone(c) ==
    /\ session[c].live
    /\ ~session[c].IsNew
    /\ session[c].ID # ""
    /\ ParamToInt(session[c].ID) \notin DOMAIN table

\* C19: a Save of a session that is not new, whose row has been purged or
\* deleted, returns nil and writes the cookie for the same identifier, and
\* the table is as it was: no row is made, the values saved are nowhere,
\* and New with the cookie just written gives a new session without values.
C19_UpdateOfMissingRow ==
    [][\A c \in Clients : \A v \in ValueMaps :
          (RowGone(c) /\ Save(c, v, TRUE)) =>
              /\ err'[c] = Nil
              /\ cookie'[c] = NewCookie(EncodeMulti(SessionName, session[c].ID, now), maxAge)
              /\ session'[c].ID = session[c].ID
              /\ session'[c].Values = v
              /\ table' = table
              /\ nextId' = nextId
              /\ LET nw == NewSession(cookie'[c].value, table', now)
                 IN  nw.session.IsNew /\ nw.session.Values = EmptyValues]_vars

\* C19 witness: with no sweeper started, a session that was loaded and then
\* deleted has been saved with values: the Save succeeded and wrote a cookie,
\* and the table has no row for it.
C19_Witness ==
    \E c \in Clients :
        /\ RowGone(c)
        /\ err[c] = Nil
        /\ session[c].Values # EmptyValues
        /\ cookie[c] = NewCookie(EncodeMulti(SessionName, session[c].ID, now), maxAge)
        /\ taskPc = "idle"

\* C20: every Delete, whatever its statement returns, writes a cookie with
\* no value and max-age -1 and empties the session's values; when the
\* statement succeeds the session's row is gone, the other rows are as they
\* were and the result is nil; when it fails the result is the statement's
\* error and the table is as it was.
C20_DeleteExpiresCookieAlways ==
    [][\A c \in Clients : \A dbOk \in BOOLEAN :
          Delete(c, dbOk) =>
              LET id == ParamToInt(session[c].ID)
              IN  /\ cookie'[c].maxAge = -1
                  /\ cookie'[c].value = NoCookie
                  /\ session'[c].Values = EmptyValues
                  /\ session'[c].ID = session[c].ID
                  /\ dbOk =>
                        /\ err'[c] = Nil
                        /\ DOMAIN table' = DOMAIN table \ {id}
                        /\ \A i \in DOMAIN table' : table'[i] = table[i]
                  /\ ~dbOk =>
                        /\ err'[c] = ErrDB
                        /\ table' = table]_vars

\* C20 witness: a Delete has failed: the handler has the database error, the
\* expiring cookie is written and the session's values are gone, and the row
\* is still in the table with its values.
C20_Witness ==
    \E c \in Clients :
        /\ err[c] = ErrDB
        /\ cookie[c] = NewCookie(NoCookie, -1)
        /\ session[c].Values = EmptyValues
        /\ ParamToInt(session[c].ID) \in DOMAIN table
        /\ table[ParamToInt(session[c].ID)].session_data.val # EmptyValues

\* the row of the session handler c holds, and a table cut down to one row
OwnRow(c) == ParamToInt(session[c].ID)
Only(tbl, i) == [j \in DOMAIN tbl \cap {i} |-> tbl[j]]

\* what a call of handler c leaves alone: the other handler's session, cookie
\* and result, and every row but its own; and the only row a call may add
Apart(c) ==
    /\ \A d \in Clients \ {c} :
          /\ session'[d] = session[d]
          /\ cookie'[d] = cookie[d]
          /\ err'[d] = err[d]
    /\ \A i \in DOMAIN table \ {OwnRow(c)} :
          i \in DOMAIN table' /\ table'[i] = table[i]
    /\ \A i \in DOMAIN table' \ DOMAIN table : session'[c].ID = Sprintf_d(i)

\* C11: with two handlers and the sweeper taking their steps in any order,
\* the handlers' sessions name different rows; a call of one handler leaves
\* the other handler's session, cookie and result alone, leaves every row
\* but its own as it was, and adds no row but its own; what a call returns
\* and does to its row is what it would return and do were its row the only
\* one in the table; and a sweep removes expired rows only, changes no row
\* that stays and no handler's session.  So every order of the statements
\* is a sequential execution in which each call meets its own row only.
C11_CallsOnDistinctRowsIndependent ==
    /\ [](\A c \in Clients : \A d \in Clients \ {c} :
              session[c].ID # "" => session[c].ID # session[d].ID)
    /\ [][\A c \in Clients :
              /\ New(c, Jar(c)) =>
                    /\ Apart(c)
                    /\ table' = table
                    /\ session'[c] =
                           NewSession(Jar(c), Only(table, ParamToInt(Jar(c).val)), now).session
              /\ Save(c, ValuesOf(c), TRUE) =>
                    LET alone == SaveRow([session[c] EXCEPT !.Values = ValuesOf(c)],
                                         Only(table, OwnRow(c)), nextId, maxAge, now, TRUE)
                    IN  /\ Apart(c)
                        /\ session'[c] = alone.session
                        /\ err'[c] = alone.err
                        /\ Only(table', ParamToInt(session'[c].ID)) =
                               Only(alone.table, ParamToInt(alone.session.ID))
              /\ Delete(c, TRUE) =>
                    /\ Apart(c)
                    /\ OwnRow(c) \notin DOMAIN table'
                    /\ err'[c] = Nil]_vars
    /\ [][ExecDone(TRUE) =>
              /\ DOMAIN table' \subseteq DOMAIN table
              /\ \A i \in DOMAIN table \ DOMAIN table' : table[i].expires_on < now
              /\ \A i \in DOMAIN table' : table'[i] = table[i]
              /\ session' = session /\ cookie' = cookie /\ err' = err]_vars

\* C11 witness: both handlers have loaded a row of their own, the two rows
\* hold different values, and a sweep is running.
C11_Witness ==
    /\ taskPc = "exec"
    /\ \A c \in Clients : OwnRow(c) \in DOMAIN table /\ ~session[c].IsNew
    /\ OwnRow(1) # OwnRow(2)
    /\ table[OwnRow(1)].session_data.val # table[OwnRow(2)].session_data.val

====
